---- MODULE Spec2Model ----
(***************************************************************************)
(* A model of the Python code-analysis helpers of LLT-Assistant:           *)
(*   python/ast_analyzer.py     PythonASTAnalyzer and its entry point      *)
(*   python/code_formatter.py   format_code and its entry point            *)
(*   python/syntax_validator.py validate_syntax and its entry point        *)
(*                                                                         *)
(* A parsed file is a sequence of nodes in source (pre-)order.  Each node  *)
(* carries its kind, the attributes the analyzer reads and the position of *)
(* its parent; node 0 is the ast.Module root.  Line numbers are laid out as the *)
(* parser lays them out: every statement starts a line of its own, except  *)
(* a simple statement joined to its left sibling with ';'; an expression   *)
(* is on the line of the statement that holds it.                          *)
(***************************************************************************)
EXTENDS Integers, Sequences, FiniteSets, TLC

VARIABLES
    tree,       \* PythonASTAnalyzer.tree: the parsed file
    filePath,   \* PythonASTAnalyzer.file_path, one character per element
    hashSeed,   \* the slot the interpreter's string hash gives each name; it is
                \* drawn when the interpreter starts and kept until it exits
    call,       \* the operation applied last, with its arguments
    ret,        \* what that operation returned
    prev        \* when the last call repeats the call before it: what that
                \* call returned

vars == <<tree, filePath, hashSeed, call, ret, prev>>

(***************************************************************************)
(* Python values                                                           *)
(***************************************************************************)
\* Python's None where a string is expected (the text of no expression).
None == "<None>"

\* Optional[int] and Optional[node]: the empty sequence is None.
Nothing == <<>>
Some(x) == <<x>>

\* The position a query for a node returns when there is no node.
NoNode == 0

(***************************************************************************)
(* Syntax trees                                                            *)
(***************************************************************************)
FuncKinds == {"FunctionDef", "AsyncFunctionDef"}
SimpleStmtKinds == {"Assign", "Raise", "Stmt", "Import", "ImportFrom"}
StmtKinds == FuncKinds \cup SimpleStmtKinds \cup {"ClassDef", "If", "Try", "Match"}
ClauseKinds == {"ExceptHandler", "match_case"}
ExprKinds == {"Name", "Attribute", "Subscript", "Call", "Expr"}

\* A node label: what the source says about one node besides its position.
\*   name     a definition's name, a Name's id, an Attribute's attr, the text of
\*            an except clause's type (None for a bare except), the module of
\*            a from-import (None when it names none)
\*   targets  an assignment's targets, left to right: <<"Name", id>>, or
\*            <<"Attribute", id, attr>> for id.attr; an import's aliases, left
\*            to right: <<name, asname>>, asname None when there is none
\*   joined   the statement follows its left sibling on the same line, after
\*            ';', or it is the first of a body written on the line of its
\*            header ("class A: x = 1")
\*   params   a function's parameters as declared, left to right
Label(kind, name) ==
    [kind |-> kind, name |-> name, targets |-> <<>>, joined |-> FALSE, params |-> <<>>]

NodeOf(l, p) ==
    [kind |-> l.kind, name |-> l.name, targets |-> l.targets, joined |-> l.joined,
     params |-> l.params, parent |-> p]

\* A node that is not of the analyzer's tree: the node another parse gave,
\* with the line that parse found it at.  It hangs under no node.
Detached == 0 - 1
Reparsed(l, line) ==
    [kind |-> l.kind, name |-> l.name, targets |-> l.targets, joined |-> l.joined,
     params |-> l.params, parent |-> Detached, lineno |-> line]

Nodes(t) == 1..Len(t)

KindOf(t, n) == IF n = 0 THEN "Module" ELSE t[n].kind

\* The node a node hangs under.
Parent(t, n) == t[n].parent

Idx(t) == [i \in 1..Len(t) |-> i]

\* ast.iter_child_nodes: the direct children, in field (here: source) order.
Children(t, n) == SelectSeq(Idx(t), LAMBDA j : Parent(t, j) = n)

RECURSIVE IsAncestor(_, _, _)
IsAncestor(t, a, n) ==
    IF n <= 0 THEN FALSE
    ELSE LET p == Parent(t, n) IN p = a \/ IsAncestor(t, a, p)

\* The nodes of the subtree of n, n included.
Subtree(t, n) == {n} \cup {j \in Nodes(t) : IsAncestor(t, n, j)}

\* ast.walk: breadth first, from a queue that starts with the root of the walk.
RECURSIVE WalkQueue(_, _, _)
WalkQueue(t, todo, out) ==
    IF todo = <<>> THEN out
    ELSE WalkQueue(t, Tail(todo) \o Children(t, Head(todo)), Append(out, Head(todo)))

Walk(t, root) == WalkQueue(t, <<root>>, <<>>)

\* Whether node n starts a source line of its own.
StartsLine(t, n) == t[n].kind \notin ExprKinds /\ ~t[n].joined

\* node.lineno and node.end_lineno as the parser sets them.
Lineno(t, n) ==
    IF "lineno" \in DOMAIN t[n] THEN t[n].lineno
    ELSE Cardinality({j \in 1..n : StartsLine(t, j)})
EndLineno(t, n) ==
    LET last == CHOOSE j \in Subtree(t, n) : \A k \in Subtree(t, n) : k <= j
    IN  Lineno(t, last)

\* hasattr(node, 'end_lineno'): every parser that offers ast.unparse sets it.
HasEndLineno == TRUE

(***************************************************************************)
(* Well-formed trees: the shapes the grammar allows                        *)
(***************************************************************************)
\* Whether a node of kind c may be the next child of a node of kind p that
\* already has the children whose kinds are `have` (in order).
MayAdopt(p, have, c) ==
    CASE p \in {"Module", "ClassDef", "ExceptHandler", "match_case"} \cup FuncKinds ->
            c \in StmtKinds
      [] p = "If" ->
            \/ c \in StmtKinds
            \/ c \in ExprKinds /\ have = <<>>
      [] p = "Try" -> c \in StmtKinds \cup {"ExceptHandler"}
      [] p = "Match" -> c = "match_case"
      [] p = "Raise" -> c \in ExprKinds /\ Len(have) < 2
      [] p = "Stmt" -> c \in ExprKinds /\ Len(have) < 1
      [] p \in {"Assign", "Import", "ImportFrom"} -> FALSE
      [] p = "Name" -> FALSE
      [] p = "Attribute" -> c \in ExprKinds /\ Len(have) < 1
      [] p = "Subscript" -> c \in ExprKinds /\ Len(have) < 2
      [] p \in {"Call", "Expr"} -> c \in ExprKinds
      [] OTHER -> FALSE

\* The rightmost path of the tree: the nodes a next node can hang under.
RECURSIVE Spine(_, _)
Spine(t, n) == IF n = 0 THEN {0} ELSE {n} \cup Spine(t, Parent(t, n))

OpenNodes(t) == IF t = <<>> THEN {0} ELSE Spine(t, Len(t))

KindsOf(t, ns) == [i \in 1..Len(ns) |-> t[ns[i]].kind]

\* Whether the body of p is written on the line of its header.
InlineBody(t, p) == Children(t, p) # <<>> /\ t[Children(t, p)[1]].joined

\* A simple statement joined with ';' follows a simple statement of its block;
\* the body of a class or a function can start on the line of the header, and
\* then it holds simple statements only, all on that line.
JoinOK(t, p, l) ==
    /\ l.joined =>
        /\ l.kind \in SimpleStmtKinds
        /\ IF Children(t, p) = <<>>
           THEN p # 0 /\ KindOf(t, p) \in FuncKinds \cup {"ClassDef"}
           ELSE t[Children(t, p)[Len(Children(t, p))]].kind \in SimpleStmtKinds
    /\ InlineBody(t, p) => l.joined

\* Whether the tree t can grow by a node labelled l under its node p.
MayGrow(t, l, p) ==
    /\ p \in OpenNodes(t)
    /\ MayAdopt(KindOf(t, p), KindsOf(t, Children(t, p)), l.kind)
    /\ JoinOK(t, p, l)

\* The trees of n nodes that the trees of n - 1 nodes in S grow into.
Grown(L, S, n) ==
    {Append(x[1], NodeOf(x[2], x[3])) :
        x \in {y \in S \X L \X (0..(n - 1)) :
                    Len(y[1]) = n - 1 /\ MayGrow(y[1], y[2], y[3])}}

RECURSIVE TreesUpTo(_, _)
TreesUpTo(L, n) ==
    IF n = 0 THEN {<<>>}
    ELSE LET S == TreesUpTo(L, n - 1) IN S \cup Grown(L, S, n)

\* Nodes that the grammar gives at least one child.
Complete(t) ==
    \A n \in Nodes(t) :
        t[n].kind \in {"Attribute", "Subscript", "Call", "Match"} =>
            Children(t, n) # <<>>

\* The well-formed trees of at most n nodes, labelled from L.
Trees(L, n) == {t \in TreesUpTo(L, n) : Complete(t)}

(***************************************************************************)
(* PythonASTAnalyzer.locate_function_node                                  *)
(***************************************************************************)
\* The candidates: every function definition of that name, in walk order.
Candidates(t, function_name) ==
    SelectSeq(Walk(t, 0),
              LAMBDA n : KindOf(t, n) \in FuncKinds /\ t[n].name = function_name)

\* The test of the loop body: the candidate starts at the line or contains it.
LineHits(t, candidate, line) ==
    \/ Lineno(t, candidate) = line
    \/ /\ HasEndLineno
       /\ Lineno(t, candidate) <= line
       /\ line <= EndLineno(t, candidate)

\* A locator that gives up when a line is given and no candidate is at it.
locate_function_node_no_fallback(t, function_name, line_number) ==
    LET candidates == Candidates(t, function_name)
        hits == IF line_number = Nothing THEN candidates
                ELSE SelectSeq(candidates, LAMBDA c : LineHits(t, c, line_number[1]))
    IN  IF hits = <<>> THEN NoNode ELSE hits[1]

locate_function_node(t, function_name, line_number) ==
    LET candidates == Candidates(t, function_name)
        hits == IF line_number = Nothing THEN <<>>
                ELSE SelectSeq(candidates, LAMBDA c : LineHits(t, c, line_number[1]))
    IN  IF candidates = <<>> THEN NoNode
        ELSE IF hits # <<>> THEN hits[1]
        ELSE candidates[1]

(***************************************************************************)
(* Expressions kept as text: annotations, defaults                         *)
(***************************************************************************)
\* An expression is <<"Name", id>>, <<"Constant", literal>> or <<"Str", chars>>.
\* ast.unparse: a name is its id, a number its literal, a string its repr.
Unparse(e) ==
    CASE e[1] = "Name" -> e[2]
      [] e[1] = "Constant" -> e[2]
      [] e[1] = "Str" -> "'" \o e[2] \o "'"

MapSeq(s, F(_)) == [i \in 1..Len(s) |-> F(s[i])]

(***************************************************************************)
(* ast.arguments: how the parser lays out a parameter declaration          *)
(***************************************************************************)
\* A declared parameter is [name, section, default, annotation]: section is
\* where it stands ("posonly" before '/', "normal", "vararg" for *name,
\* "kwonly" after '*', "kwarg" for **name); default and annotation are Nothing
\* or Some(expression).
ArgOf(p) == [arg |-> p.name, annotation |-> p.annotation]

InSection(params, sec) == SelectSeq(params, LAMBDA p : p.section = sec)

Arguments(params) ==
    [posonlyargs |-> MapSeq(InSection(params, "posonly"), ArgOf),
     args        |-> MapSeq(InSection(params, "normal"), ArgOf),
     vararg      |-> MapSeq(InSection(params, "vararg"), ArgOf),
     kwonlyargs  |-> MapSeq(InSection(params, "kwonly"), ArgOf),
     kw_defaults |-> MapSeq(InSection(params, "kwonly"), LAMBDA p : p.default),
     kwarg       |-> MapSeq(InSection(params, "kwarg"), ArgOf),
     defaults    |-> MapSeq(SelectSeq(params,
                                LAMBDA p : /\ p.section \in {"posonly", "normal"}
                                           /\ p.default # Nothing),
                            LAMBDA p : p.default[1])]

(***************************************************************************)
(* PythonASTAnalyzer.extract_function_signature                            *)
(***************************************************************************)
_get_annotation(annotation) ==
    IF annotation = Nothing THEN None ELSE Unparse(annotation[1])

\* A loop body that takes the first parameter with a default for one without.
NamedParameterLateDefault(args, i) ==
    LET i0 == i - 1
        default_offset == Len(args.args) - Len(args.defaults)
    IN  [name |-> args.args[i].arg,
         type |-> _get_annotation(args.args[i].annotation),
         default_value |->
            IF i0 > default_offset /\ default_offset >= 0
            THEN Unparse(args.defaults[(i0 - default_offset) + 1])
            ELSE None,
         kind |->
            IF i0 >= Len(args.args) - Len(args.kw_defaults)
            THEN "keyword" ELSE "positional"]

\* The body of the loop over args.args, for the 1-based position i.
NamedParameter(args, i) ==
    LET i0 == i - 1
        default_offset == Len(args.args) - Len(args.defaults)
    IN  [name |-> args.args[i].arg,
         type |-> _get_annotation(args.args[i].annotation),
         default_value |->
            IF i0 >= default_offset
            THEN Unparse(args.defaults[(i0 - default_offset) + 1])
            ELSE None,
         kind |->
            IF i0 >= Len(args.args) - Len(args.kw_defaults)
            THEN "keyword" ELSE "positional"]

Variadic(a, kind) ==
    [name |-> a.arg, type |-> _get_annotation(a.annotation),
     default_value |-> None, kind |-> kind]

\* The parameter list before method detection.
RawParameters(args) ==
    [i \in 1..Len(args.args) |-> NamedParameter(args, i)]
        \o MapSeq(args.vararg, LAMBDA a : Variadic(a, "var_positional"))
        \o MapSeq(args.kwarg, LAMBDA a : Variadic(a, "var_keyword"))

IsMethod(parameters) ==
    parameters # <<>> /\ parameters[1].name \in {"self", "cls"}

extract_function_signature(t, func_node) ==
    LET parameters == RawParameters(Arguments(t[func_node].params))
    IN  [name |-> t[func_node].name,
         parameters |-> IF IsMethod(parameters) THEN Tail(parameters) ELSE parameters,
         return_type |-> _get_annotation(Nothing),
         is_async |-> t[func_node].kind = "AsyncFunctionDef",
         is_method |-> IsMethod(parameters),
         decorators |-> <<>>]

(***************************************************************************)
(* PythonASTAnalyzer.analyze_function_body                                 *)
(***************************************************************************)
BUILTIN_FUNCTIONS ==
    {"print", "len", "range", "str", "int", "float", "list", "dict",
     "set", "tuple", "bool", "type", "isinstance", "hasattr", "getattr",
     "setattr", "delattr", "all", "any", "sum", "min", "max", "sorted",
     "enumerate", "zip", "map", "filter", "open", "input", "eval", "exec"}

\* The text of an expression that the tree does not spell out.
Opaque == "..."

\* ast.unparse of an expression node of the tree.
RECURSIVE UnparseNode(_, _)
UnparseNode(t, n) ==
    LET kids == Children(t, n)
    IN  CASE t[n].kind = "Name" -> t[n].name
          [] t[n].kind = "Attribute" -> UnparseNode(t, kids[1]) \o "." \o t[n].name
          [] t[n].kind = "Call" -> UnparseNode(t, kids[1]) \o "(" \o Opaque \o ")"
          [] t[n].kind = "Subscript" -> UnparseNode(t, kids[1]) \o "[" \o Opaque \o "]"
          [] OTHER -> Opaque

\* The children of n that are expressions, and the one a field names: the test
\* of an If, the exc of a Raise, the func of a Call, the value of an Attribute.
ExprChildren(t, n) == SelectSeq(Children(t, n), LAMBDA j : t[j].kind \in ExprKinds)
FirstExpr(t, n) == IF ExprChildren(t, n) = <<>> THEN Nothing ELSE Some(ExprChildren(t, n)[1])

\* Handlers that leave out the bare "except:".
HandlersWithType(t, n) ==
    SelectSeq(Children(t, n), LAMBDA j : t[j].kind = "ExceptHandler" /\ t[j].name # None)

Handlers(t, n) == SelectSeq(Children(t, n), LAMBDA j : t[j].kind = "ExceptHandler")
Cases(t, n) == SelectSeq(Children(t, n), LAMBDA j : t[j].kind = "match_case")

\* A resolver that knows the bare name only.
_get_exception_name_of_names(t, exc_node) ==
    IF t[exc_node].kind = "Name" THEN t[exc_node].name ELSE None

_get_exception_name(t, exc_node) ==
    IF t[exc_node].kind = "Name" THEN t[exc_node].name
    ELSE IF t[exc_node].kind = "Call" /\ t[Children(t, exc_node)[1]].kind = "Name"
         THEN t[Children(t, exc_node)[1]].name
    ELSE None

\* An extractor that gives no record unless the receiver is a bare name.
_extract_call_info_of_names(t, call_node) ==
    LET func == Children(t, call_node)[1]
        base == Children(t, func)[1]
    IN  IF t[func].kind = "Name"
        THEN Some([function_name |-> t[func].name,
                   module |-> None,
                   line_number |-> Lineno(t, call_node),
                   is_builtin |-> t[func].name \in BUILTIN_FUNCTIONS])
        ELSE IF t[func].kind = "Attribute" /\ t[base].kind = "Name"
        THEN Some([function_name |-> t[func].name,
                   module |-> t[base].name,
                   line_number |-> Lineno(t, call_node),
                   is_builtin |-> t[func].name \in BUILTIN_FUNCTIONS])
        ELSE Nothing

\* Nothing when the callee is neither a name nor an attribute access.
_extract_call_info(t, call_node) ==
    LET func == Children(t, call_node)[1]
        function_name == t[func].name
        module == IF /\ t[func].kind = "Attribute"
                     /\ t[Children(t, func)[1]].kind = "Name"
                  THEN t[Children(t, func)[1]].name ELSE None
    IN  IF t[func].kind \in {"Name", "Attribute"}
        THEN Some([function_name |-> function_name,
                   module |-> module,
                   line_number |-> Lineno(t, call_node),
                   is_builtin |-> function_name \in BUILTIN_FUNCTIONS])
        ELSE Nothing

HandlerRecord(t, handler) ==
    [type |-> "try-except",
     exception_class |-> t[handler].name,
     line_number |-> Lineno(t, handler),
     context |-> IF t[handler].name # None THEN "except " \o t[handler].name
                 ELSE "except"]

RaiseRecord(t, n) ==
    LET exc == FirstExpr(t, n)
    IN  [type |-> "raise",
         exception_class |-> IF exc # Nothing THEN _get_exception_name(t, exc[1]) ELSE None,
         line_number |-> Lineno(t, n),
         context |-> IF exc # Nothing THEN UnparseNode(t, exc[1]) ELSE ""]

BranchRecord(t, n, type) ==
    [type |-> type,
     condition |-> IF FirstExpr(t, n) = Nothing THEN Opaque
                   ELSE UnparseNode(t, FirstExpr(t, n)[1]),
     line_number |-> Lineno(t, n)]

\* One turn of the loop over ast.walk(func_node): the if/elif chain on the node.
VisitNode(t, n, acc) ==
    CASE t[n].kind = "If" ->
            [acc EXCEPT !.branches = Append(@, BranchRecord(t, n, "if")),
                        !.complexity = @ + 1]
      [] t[n].kind = "Match" ->
            [acc EXCEPT !.branches = Append(@, BranchRecord(t, n, "match")),
                        !.complexity = @ + Len(Cases(t, n))]
      [] t[n].kind = "Raise" ->
            [acc EXCEPT !.exceptions = Append(@, RaiseRecord(t, n))]
      [] t[n].kind = "Try" ->
            [acc EXCEPT !.exceptions =
                            @ \o MapSeq(Handlers(t, n), LAMBDA h : HandlerRecord(t, h)),
                        !.complexity = @ + Len(Handlers(t, n))]
      [] t[n].kind = "Call" ->
            [acc EXCEPT !.external_calls = @ \o _extract_call_info(t, n)]
      [] OTHER -> acc

RECURSIVE VisitAll(_, _, _)
VisitAll(t, order, acc) ==
    IF order = <<>> THEN acc
    ELSE VisitAll(t, Tail(order), VisitNode(t, Head(order), acc))

analyze_function_body(t, func_node) ==
    VisitAll(t, Walk(t, func_node),
             [branches |-> <<>>, exceptions |-> <<>>, external_calls |-> <<>>,
              complexity |-> 1])

(***************************************************************************)
(* PythonASTAnalyzer.extract_class_context                                 *)
(***************************************************************************)
\* list(set(names)): each name once, in the order of the slots the hash gives.
RECURSIVE BySlot(_, _)
BySlot(names, slot) ==
    IF names = {} THEN <<>>
    ELSE LET x == CHOOSE y \in names : \A z \in names : slot[y] <= slot[z]
         IN  <<x>> \o BySlot(names \ {x}, slot)

Range(s) == {s[i] : i \in 1..Len(s)}

\* A list whose order is not the same on a repeated call.
ListOfSetByHistory(names, slot) ==
    IF call.op = "build"
    THEN BySlot(Range(names), [x \in DOMAIN slot |-> 0 - slot[x]])
    ELSE BySlot(Range(names), slot)

ListOfSet(names, slot) == BySlot(Range(names), slot)

\* A test that takes the statement that holds the function for the function.
IsItemOfBySpan(t, item, func_node) ==
    \/ item = func_node
    \/ /\ Lineno(t, item) <= Lineno(t, func_node)
       /\ Lineno(t, func_node) <= EndLineno(t, item)

\* The test on one statement of a class body.
IsItemOf(t, item, func_node) ==
    item = func_node \/ Lineno(t, item) = Lineno(t, func_node)

\* The classes, in walk order, with a body statement that passes the test.
OwnerClasses(t, func_node) ==
    SelectSeq(Walk(t, 0),
              LAMBDA c : /\ KindOf(t, c) = "ClassDef"
                         /\ \E item \in Range(Children(t, c)) :
                                IsItemOf(t, item, func_node))

\* parent_class: every class that passes assigns it, so the last one stays.
ParentClass(t, func_node) ==
    LET owners == OwnerClasses(t, func_node)
    IN  IF owners = <<>> THEN NoNode ELSE owners[Len(owners)]

\* The names one assignment target adds to class_attributes.
TargetNames(target) ==
    IF target[1] = "Attribute"
    THEN (IF target[2] = "self" THEN <<target[3]>> ELSE <<>>)
    ELSE IF target[1] = "Name" THEN <<target[2]>>
    ELSE <<>>

RECURSIVE Flatten(_)
Flatten(ss) == IF ss = <<>> THEN <<>> ELSE Head(ss) \o Flatten(Tail(ss))

ClassAttributes(t, parent_class) ==
    Flatten(MapSeq(SelectSeq(Walk(t, parent_class), LAMBDA n : t[n].kind = "Assign"),
                   LAMBDA n : Flatten(MapSeq(t[n].targets, TargetNames))))

OtherMethods(t, parent_class, func_node) ==
    MapSeq(SelectSeq(Children(t, parent_class),
                     LAMBDA item : /\ t[item].kind \in FuncKinds
                                   /\ t[item].name # t[func_node].name),
           LAMBDA item : t[item].name)

\* Nothing, or Some(ClassContext).  The classes of the model have no base
\* class and no decorator.
extract_class_context(t, func_node, slot) ==
    LET parent_class == ParentClass(t, func_node)
    IN  IF parent_class = NoNode THEN Nothing
        ELSE Some([class_name |-> t[parent_class].name,
                   base_classes |-> <<>>,
                   class_attributes |-> ListOfSet(ClassAttributes(t, parent_class), slot),
                   other_methods |-> OtherMethods(t, parent_class, func_node),
                   is_dataclass |-> FALSE])

(***************************************************************************)
(* PythonASTAnalyzer.extract_imports                                       *)
(***************************************************************************)
\* Records that take the alias of the first name of any from-import.
ImportRecordsFirstAlias(t, n) ==
    IF t[n].kind = "Import"
    THEN MapSeq(t[n].targets,
                LAMBDA alias : [module |-> alias[1], imported_names |-> <<"*">>,
                                alias |-> alias[2], line_number |-> Lineno(t, n)])
    ELSE IF t[n].kind = "ImportFrom"
    THEN <<[module |-> IF t[n].name = None THEN "" ELSE t[n].name,
            imported_names |-> MapSeq(t[n].targets, LAMBDA alias : alias[1]),
            alias |-> t[n].targets[1][2],
            line_number |-> Lineno(t, n)]>>
    ELSE <<>>

ImportRecords(t, n) ==
    IF t[n].kind = "Import"
    THEN MapSeq(t[n].targets,
                LAMBDA alias : [module |-> alias[1], imported_names |-> <<"*">>,
                                alias |-> alias[2], line_number |-> Lineno(t, n)])
    ELSE IF t[n].kind = "ImportFrom"
    THEN <<[module |-> IF t[n].name = None THEN "" ELSE t[n].name,
            imported_names |-> MapSeq(t[n].targets, LAMBDA alias : alias[1]),
            alias |-> IF Len(t[n].targets) = 1 THEN t[n].targets[1][2] ELSE None,
            line_number |-> Lineno(t, n)]>>
    ELSE <<>>

extract_imports(t) ==
    Flatten(MapSeq(Tail(Walk(t, 0)), LAMBDA n : ImportRecords(t, n)))

(***************************************************************************)
(* PythonASTAnalyzer.extract_documentation, get_function_source_code       *)
(***************************************************************************)
\* The files of the model hold no docstring and no comment.
extract_documentation(t, func_node) ==
    [docstring |-> None, inline_comments |-> <<>>]

\* source_lines[start:end]; the text of a line is its number.
get_function_source_code(t, func_node) ==
    [k \in 1..(EndLineno(t, func_node) - (Lineno(t, func_node) - 1)) |->
        (Lineno(t, func_node) - 1) + k]

(***************************************************************************)
(* PythonASTAnalyzer.build_function_context                                *)
(***************************************************************************)
\* str.replace: every occurrence of old, left to right, none overlapping.
RECURSIVE Replace(_, _, _)
Replace(s, old, new) ==
    IF Len(s) < Len(old) THEN s
    ELSE IF SubSeq(s, 1, Len(old)) = old
         THEN new \o Replace(SubSeq(s, Len(old) + 1, Len(s)), old, new)
    ELSE <<Head(s)>> \o Replace(Tail(s), old, new)

ModulePath(file_path) ==
    LET module_path ==
            Replace(Replace(Replace(file_path, <<".", "p", "y">>, <<>>),
                            <<"/">>, <<".">>),
                    <<"\\">>, <<".">>)
    IN  IF module_path # <<>> /\ Head(module_path) = "."
        THEN Tail(module_path) ELSE module_path

LineRange(t, func_node) ==
    <<Lineno(t, func_node),
      IF HasEndLineno THEN EndLineno(t, func_node) ELSE Lineno(t, func_node)>>

\* Nothing (not found), or Some(FunctionContext).
build_function_context(t, file_path, slot, function_name, line_number) ==
    LET func_node == locate_function_node(t, function_name, line_number)
    IN  IF func_node = NoNode THEN Nothing
        ELSE Some([signature |-> extract_function_signature(t, func_node),
                   source_code |-> get_function_source_code(t, func_node),
                   body_analysis |-> analyze_function_body(t, func_node),
                   class_context |-> extract_class_context(t, func_node, slot),
                   imports |-> extract_imports(t),
                   documentation |-> extract_documentation(t, func_node),
                   file_path |-> file_path,
                   module_path |-> ModulePath(file_path),
                   line_range |-> LineRange(t, func_node)])

(***************************************************************************)
(* The locator's inputs and specification                                  *)
(***************************************************************************)
MaxLocNodes == 3

LocLabels ==
    {Label("FunctionDef", "f"), Label("AsyncFunctionDef", "f"),
     Label("FunctionDef", "g"), Label("ClassDef", "A"), Label("Stmt", None)}

QueryNames == {"f", "g"}
QueryLines(t) == {Nothing} \cup {Some(k) : k \in 0..(Len(t) + 1)}

Idle == [op |-> "none"]

\* The path of the analyzed file, and the hash slots when no name is hashed.
SomePath == <<"m", ".", "p", "y">>
NoSlots == <<>>

InitLoc ==
    /\ tree \in Trees(LocLabels, MaxLocNodes)
    /\ filePath = SomePath
    /\ hashSeed = NoSlots
    /\ call = Idle
    /\ ret = Nothing
    /\ prev = Nothing

\* main() makes the analyzer and then one call, so every call starts from
\* the state after construction; no call changes what the analyzer holds.
Locate ==
    \E name \in QueryNames : \E line \in QueryLines(tree) :
        /\ call = Idle
        /\ call' = [op |-> "locate", name |-> name, line |-> line]
        /\ ret' = locate_function_node(tree, name, line)
        /\ prev' = Nothing
        /\ UNCHANGED <<tree, filePath, hashSeed>>

Build ==
    \E name \in QueryNames : \E line \in QueryLines(tree) :
        /\ call = Idle
        /\ call' = [op |-> "build", name |-> name, line |-> line]
        /\ ret' = build_function_context(tree, filePath, hashSeed, name, line)
        /\ prev' = Nothing
        /\ UNCHANGED <<tree, filePath, hashSeed>>

\* The caller makes the build_function_context call it has just made once more.
BuildAgain ==
    /\ call.op = "build"
    /\ prev = Nothing
    /\ call' = call
    /\ ret' = build_function_context(tree, filePath, hashSeed, call.name, call.line)
    /\ prev' = Some(ret)
    /\ UNCHANGED <<tree, filePath, hashSeed>>

NextLoc == Locate \/ Build

SpecLoc == InitLoc /\ [][NextLoc]_vars

NamedFunctions(t, name) == {n \in Nodes(t) : t[n].kind \in FuncKinds /\ t[n].name = name}

\* C1: when the tree holds two or more functions of the queried name, and the
\* queried line is the start line of one of them, locate_function_node
\* returns a node that starts at the queried line (an exact start-line match
\* wins over a candidate whose span only contains the line).
C1_ExactStartLineWins ==
    (/\ call.op = "locate"
     /\ call.line # Nothing
     /\ Cardinality(NamedFunctions(tree, call.name)) >= 2
     /\ \E n \in NamedFunctions(tree, call.name) : Lineno(tree, n) = call.line[1])
        => /\ ret # NoNode
           /\ Lineno(tree, ret) = call.line[1]

FunctionContextFields ==
    {"signature", "source_code", "body_analysis", "class_context", "imports",
     "documentation", "file_path", "module_path", "line_range"}

\* Whether some function of that name starts at the line or spans it.
LineMatchesSome(t, name, line) ==
    \E n \in NamedFunctions(t, name) :
        Lineno(t, n) <= line /\ line <= EndLineno(t, n)

\* C2: build_function_context answers not-found exactly when the tree holds no
\* function (ordinary or async) of the queried name; otherwise it answers a
\* record with every field of FunctionContext, for a function of that name;
\* and a line that no function of the name starts at or spans gives the first
\* candidate of the walk, not not-found.
C2_FoundIffNamed ==
    call.op = "build" =>
        /\ (ret = Nothing) <=> (NamedFunctions(tree, call.name) = {})
        /\ ret # Nothing =>
            /\ DOMAIN ret[1] = FunctionContextFields
            /\ ret[1].signature.name = call.name
            /\ \E n \in NamedFunctions(tree, call.name) :
                    ret[1].line_range = <<Lineno(tree, n), EndLineno(tree, n)>>
            /\ (call.line # Nothing /\ ~LineMatchesSome(tree, call.name, call.line[1]))
                    => ret[1].line_range[1] =
                            Lineno(tree, Candidates(tree, call.name)[1])

\* A build with a line that no function of the name starts at or spans, in a
\* tree that holds an async function of the name after another one.
C2_Witness ==
    /\ call.op = "build"
    /\ call.line # Nothing
    /\ ret # Nothing
    /\ ~LineMatchesSome(tree, call.name, call.line[1])
    /\ call.line[1] > 0
    /\ \E n \in NamedFunctions(tree, call.name) : tree[n].kind = "AsyncFunctionDef"

(***************************************************************************)
(* The signature extractor's inputs and specification                      *)
(***************************************************************************)
MaxParams == 3

ParamNames == {"self", "cls", "a", "b"}
DefaultExprs == {<<"Constant", "None">>, <<"Str", "s">>}
Sections == <<"posonly", "normal", "vararg", "kwonly", "kwarg">>
SectionRank(sec) == CHOOSE k \in 1..Len(Sections) : Sections[k] = sec

ParamChoices ==
    [name : ParamNames, section : {Sections[k] : k \in 1..Len(Sections)},
     default : {Nothing} \cup {Some(e) : e \in DefaultExprs}, annotation : {Nothing}]

\* What the grammar asks of a parameter p declared after the parameters ps.
MayDeclare(ps, p) ==
    /\ \A i \in 1..Len(ps) :
        /\ ps[i].name # p.name
        /\ SectionRank(ps[i].section) <= SectionRank(p.section)
        /\ ps[i].section \in {"vararg", "kwarg"} => ps[i].section # p.section
        /\ (/\ ps[i].section \in {"posonly", "normal"}
            /\ p.section \in {"posonly", "normal"}
            /\ ps[i].default # Nothing) => p.default # Nothing
    /\ p.section \in {"vararg", "kwarg"} => p.default = Nothing

RECURSIVE ParamListsUpTo(_)
ParamListsUpTo(n) ==
    IF n = 0 THEN {<<>>}
    ELSE LET S == ParamListsUpTo(n - 1)
         IN  S \cup {Append(x[1], x[2]) :
                        x \in {y \in S \X ParamChoices :
                                    Len(y[1]) = n - 1 /\ MayDeclare(y[1], y[2])}}

ParamLists == ParamListsUpTo(MaxParams)

FunctionOf(kind, name, params) ==
    NodeOf([Label(kind, name) EXCEPT !.params = params], 0)

InitSig ==
    /\ \E kind \in FuncKinds : \E params \in ParamLists :
          tree = <<FunctionOf(kind, "f", params)>>
    /\ filePath = SomePath
    /\ hashSeed = NoSlots
    /\ call = Idle
    /\ ret = Nothing
    /\ prev = Nothing

\* The extraction of the function's signature, the first time and once more.
Signature ==
    /\ prev = Nothing
    /\ call' = [op |-> "signature", node |-> 1]
    /\ ret' = extract_function_signature(tree, 1)
    /\ prev' = IF call.op = "signature" THEN Some(ret) ELSE Nothing
    /\ UNCHANGED <<tree, filePath, hashSeed>>

NextSig == Signature

SpecSig == InitSig /\ [][NextSig]_vars

\* The parameters the function declares, in the order of the declaration.
Declared == tree[1].params

\* C3: is_method is true exactly when the first declared parameter of the
\* function is named "self" or "cls"; when it is true the returned list is one
\* shorter than the declared parameter list and does not hold that first
\* parameter, and when it is false the returned list is as long as the
\* declared one.
C3_MethodIffFirstDeclared ==
    call.op = "signature" =>
        /\ ret.is_method <=>
                (Declared # <<>> /\ Declared[1].name \in {"self", "cls"})
        /\ ret.is_method =>
                /\ Len(ret.parameters) = Len(Declared) - 1
                /\ \A j \in 1..Len(ret.parameters) :
                        ret.parameters[j].name # Declared[1].name
        /\ ~ret.is_method => Len(ret.parameters) = Len(Declared)

\* The ordinary parameters of the declaration (the ones of args.args), and
\* the ones of them that have a default.
Ordinary == InSection(Declared, "normal")
Defaulted == SelectSeq(Ordinary, LAMBDA p : p.default # Nothing)

\* C6: with n ordinary parameters of which the last d have a default, the
\* ordinary parameter at index i (from 0) has a default_value exactly when
\* i >= n - d, and it is the text of default number i - (n - d); so at most d
\* parameters of the output have one, a variadic parameter has none, and a
\* second extraction of the same node gives the same record.
C6_DefaultsByPosition ==
    call.op = "signature" =>
        LET n == Len(Ordinary)
            d == Len(Defaulted)
            skip == IF ret.is_method THEN 1 ELSE 0
            out == ret.parameters
            variadics == Len(InSection(Declared, "vararg"))
                            + Len(InSection(Declared, "kwarg"))
        IN  /\ Len(out) = (n + variadics) - skip
            /\ \A j \in 1..Len(out) :
                  LET i == (j - 1) + skip
                  IN  IF i < n
                      THEN /\ out[j].name = Ordinary[i + 1].name
                           /\ out[j].kind \in {"positional", "keyword"}
                           /\ out[j].default_value =
                                IF i >= n - d
                                THEN Unparse(Defaulted[(i - (n - d)) + 1].default[1])
                                ELSE None
                      ELSE /\ out[j].kind \in {"var_positional", "var_keyword"}
                           /\ out[j].default_value = None
            /\ Cardinality({j \in 1..Len(out) : out[j].default_value # None}) <= d
            /\ prev # Nothing => ret = prev[1]

\* A second extraction of a function whose output has an ordinary parameter
\* without a default, one with a default, and a variadic one.
C6_Witness ==
    /\ call.op = "signature"
    /\ prev # Nothing
    /\ Len(ret.parameters) = 3
    /\ ret.parameters[1].default_value = None
    /\ ret.parameters[2].default_value = "'s'"
    /\ ret.parameters[3].kind = "var_keyword"

(***************************************************************************)
(* The body analyzer's inputs and specification                            *)
(***************************************************************************)
MaxBodyNodes == 4

BodyLabels ==
    {Label("If", None), Label("Match", None), Label("match_case", None),
     Label("Try", None), Label("ExceptHandler", "KeyError"),
     Label("ExceptHandler", None), Label("Raise", None), Label("Stmt", None),
     Label("Call", None), Label("Name", "print"), Label("Name", "ValueError"),
     Label("Attribute", "append"), Label("Subscript", None), Label("Expr", None)}

\* The function f whose body holds the statements of the forest b.
FunctionAround(b) ==
    <<NodeOf(Label("FunctionDef", "f"), 0)>>
        \o [i \in 1..Len(b) |-> [b[i] EXCEPT !.parent = @ + 1]]

InitBody ==
    /\ \E b \in Trees(BodyLabels, MaxBodyNodes) : tree = FunctionAround(b)
    /\ filePath = SomePath
    /\ hashSeed = NoSlots
    /\ call = Idle
    /\ ret = Nothing
    /\ prev = Nothing

AnalyzeBody ==
    /\ call = Idle
    /\ call' = [op |-> "analyze", node |-> 1]
    /\ ret' = analyze_function_body(tree, 1)
    /\ UNCHANGED <<tree, filePath, hashSeed, prev>>

NextBody == AnalyzeBody

SpecBody == InitBody /\ [][NextBody]_vars

\* The nodes of a kind under the analyzed function, and the records of a type.
NodesOfKind(kind) == {n \in Subtree(tree, 1) : tree[n].kind = kind}
RecordsOfType(records, type) == {i \in DOMAIN records : records[i].type = type}

\* C4: complexity is 1 + the number of If nodes + the number of case arms of
\* the Match nodes + the number of handlers of the Try nodes under the
\* function; so it is at least 1, and 1 exactly when there is none of them;
\* the 'if' branch records are as many as the If nodes and the 'try-except'
\* records as many as the handlers.
C4_ComplexityFormula ==
    call.op = "analyze" =>
        LET ifs == Cardinality(NodesOfKind("If"))
            arms == Cardinality(NodesOfKind("match_case"))
            handlers == Cardinality(NodesOfKind("ExceptHandler"))
        IN  /\ ret.complexity = ((1 + ifs) + arms) + handlers
            /\ ret.complexity >= 1
            /\ (ret.complexity = 1) <=> (ifs = 0 /\ arms = 0 /\ handlers = 0)
            /\ Cardinality(RecordsOfType(ret.branches, "if")) = ifs
            /\ Cardinality(RecordsOfType(ret.exceptions, "try-except")) = handlers

\* An analysis of a function with an If and a Try with a bare handler.
C4_Witness ==
    /\ call.op = "analyze"
    /\ ret.complexity = 3
    /\ NodesOfKind("If") # {}
    /\ \E h \in NodesOfKind("ExceptHandler") : tree[h].name = None

\* The record of a call node as the claim C9 has it: one for a callee that is
\* a bare name or an attribute of a bare name, none for any other callee.
ClaimedCallRecord(c) ==
    LET func == Children(tree, c)[1]
        base == Children(tree, func)[1]
    IN  IF tree[func].kind = "Name"
        THEN Some([function_name |-> tree[func].name, module |-> None])
        ELSE IF tree[func].kind = "Attribute" /\ tree[base].kind = "Name"
        THEN Some([function_name |-> tree[func].name, module |-> tree[base].name])
        ELSE Nothing

\* The record of a call node with any attribute access for a callee: the
\* receiver is the base when the base is a bare name, and absent otherwise.
AmendedCallRecord(c) ==
    LET func == Children(tree, c)[1]
        base == Children(tree, func)[1]
    IN  IF tree[func].kind = "Name"
        THEN Some([function_name |-> tree[func].name, module |-> None])
        ELSE IF tree[func].kind = "Attribute"
        THEN Some([function_name |-> tree[func].name,
                   module |-> IF tree[base].kind = "Name"
                              THEN tree[base].name ELSE None])
        ELSE Nothing

\* What a call record says besides its line and its is_builtin.
Callee(r) == [function_name |-> r.function_name, module |-> r.module]

\* Whether the records are, one for one, the records Expected gives the call
\* nodes of a line, with is_builtin set from function_name alone.
CallRecordsAre(records, Expected(_)) ==
    /\ \A i \in DOMAIN records :
            records[i].is_builtin = (records[i].function_name \in BUILTIN_FUNCTIONS)
    /\ \A line \in 1..Len(tree) :
         \A x \in {Expected(c)[1] : c \in {k \in NodesOfKind("Call") : Expected(k) # Nothing}}
                \cup {Callee(records[i]) : i \in DOMAIN records} :
            Cardinality({i \in DOMAIN records :
                            Callee(records[i]) = x /\ records[i].line_number = line})
              = Cardinality({c \in NodesOfKind("Call") :
                                /\ Expected(c) = Some(x)
                                /\ Lineno(tree, c) = line})

\* C9 as it was claimed: a call record for a call node if and only if its
\* callee is a bare name or an attribute access on a bare name; no record for
\* a callee of any other shape.
C9_RecordIffNameOrAttributeOfName ==
    call.op = "analyze" => CallRecordsAre(ret.external_calls, ClaimedCallRecord)

\* C9, amended: a call record for a call node if and only if its callee is a
\* bare name (function_name the name, no receiver) or an attribute access
\* (function_name the attribute; receiver the base when the base is a bare
\* name, absent otherwise); no record for a callee of any other shape;
\* is_builtin depends on function_name only.
C9_RecordIffNameOrAttribute ==
    call.op = "analyze" => CallRecordsAre(ret.external_calls, AmendedCallRecord)

\* An analysis that records a call of an attribute whose base is not a name.
C9_Witness ==
    /\ call.op = "analyze"
    /\ \E c \in NodesOfKind("Call") :
            /\ tree[Children(tree, c)[1]].kind = "Attribute"
            /\ tree[Children(tree, Children(tree, c)[1])[1]].kind # "Name"
    /\ \E i \in DOMAIN ret.external_calls :
            /\ ret.external_calls[i].function_name = "append"
            /\ ret.external_calls[i].module = None

\* The exception_class of a raise node by the shape of what it raises.
RaisedName(n) ==
    LET exc == ExprChildren(tree, n)
    IN  IF exc = <<>> THEN None
        ELSE IF tree[exc[1]].kind = "Name" THEN tree[exc[1]].name
        ELSE IF /\ tree[exc[1]].kind = "Call"
                /\ tree[Children(tree, exc[1])[1]].kind = "Name"
        THEN tree[Children(tree, exc[1])[1]].name
        ELSE None

\* The body "if ...: raise ValueError(...)".
DivideShape ==
    /\ Len(tree) = 5
    /\ KindsOf(tree, <<2, 3, 4, 5>>) = <<"If", "Raise", "Call", "Name">>
    /\ \A n \in 2..5 : tree[n].parent = n - 1
    /\ tree[5].name = "ValueError"

\* C10: one 'raise' record for each Raise node, at its line; its
\* exception_class is the name for a raised bare name, the callee's name for
\* a raised call of a bare name, and absent for anything else; a bare raise
\* has the empty context; Raise nodes add nothing to complexity; and the body
\* "if ...: raise ValueError(...)" gives complexity 2, one 'if' branch record
\* and one 'raise' record of ValueError.
C10_RaiseRecords ==
    call.op = "analyze" =>
        /\ Cardinality(RecordsOfType(ret.exceptions, "raise"))
                = Cardinality(NodesOfKind("Raise"))
        /\ \A n \in NodesOfKind("Raise") :
              \E i \in RecordsOfType(ret.exceptions, "raise") :
                /\ ret.exceptions[i].line_number = Lineno(tree, n)
                /\ ret.exceptions[i].exception_class = RaisedName(n)
                /\ (ret.exceptions[i].context = "") <=> (ExprChildren(tree, n) = <<>>)
        /\ ret.complexity =
                ((1 + Cardinality(NodesOfKind("If")))
                    + Cardinality(NodesOfKind("match_case")))
                    + Cardinality(NodesOfKind("ExceptHandler"))
        /\ DivideShape =>
                /\ ret.complexity = 2
                /\ Len(ret.branches) = 1 /\ ret.branches[1].type = "if"
                /\ Len(ret.exceptions) = 1
                /\ ret.exceptions[1].type = "raise"
                /\ ret.exceptions[1].exception_class = "ValueError"

\* The analysis of the body "if ...: raise ValueError(...)".
C10_Witness ==
    /\ call.op = "analyze"
    /\ DivideShape
    /\ ret.complexity = 2

(***************************************************************************)
(* The class-context extractor's inputs and specification                  *)
(***************************************************************************)
MaxClassNodes == 3

AssignOf(targets, joined) ==
    [Label("Assign", None) EXCEPT !.targets = targets, !.joined = joined]

\* The function "def name(first): ..." or "async def name(first): ...".
MethodOf(kind, name, first) ==
    [Label(kind, name) EXCEPT
        !.params = <<[name |-> first, section |-> "normal",
                      default |-> Nothing, annotation |-> Nothing]>>]

ClassLabels ==
    {MethodOf("FunctionDef", "f", "self"), MethodOf("AsyncFunctionDef", "g", "cls"),
     Label("ClassDef", "A"), Label("ClassDef", "B"),
     AssignOf(<<<<"Name", "a">>>>, FALSE),
     AssignOf(<<<<"Attribute", "self", "b">>, <<"Name", "a">>>>, FALSE),
     AssignOf(<<<<"Attribute", "cls", "b">>>>, FALSE),
     AssignOf(<<<<"Name", "b">>>>, TRUE)}

\* The names a class attribute can have, and the slots a hash can give them.
AttributeNames == {"a", "b"}
HashSlots ==
    {h \in [AttributeNames -> 1..Cardinality(AttributeNames)] :
        \A x, y \in AttributeNames : x # y => h[x] # h[y]}

FunctionNodes(t) == {n \in Nodes(t) : t[n].kind \in FuncKinds}

InitClass ==
    /\ tree \in Trees(ClassLabels, MaxClassNodes)
    /\ filePath = SomePath
    /\ hashSeed \in HashSlots
    /\ call = Idle
    /\ ret = Nothing
    /\ prev = Nothing

ClassContext ==
    \E func_node \in FunctionNodes(tree) :
        /\ call = Idle
        /\ call' = [op |-> "class_context", node |-> func_node]
        /\ ret' = extract_class_context(tree, func_node, hashSeed)
        /\ prev' = Nothing
        /\ UNCHANGED <<tree, filePath, hashSeed>>

\* The same call for the node of a second parse of the file: a function
\* that parse found at some line, and that is no node of the tree.
ClassContextOfReparsed ==
    \E line \in 1..(Len(tree) + 1) :
        LET func_node == Reparsed(MethodOf("FunctionDef", "f", "self"), line)
        IN  /\ call = Idle
            /\ call' = [op |-> "class_context_reparsed", node |-> func_node]
            /\ ret' = extract_class_context(Append(tree, func_node),
                                            Len(tree) + 1, hashSeed)
            /\ prev' = Nothing
            /\ UNCHANGED <<tree, filePath, hashSeed>>

NextClass == ClassContext \/ ClassContextOfReparsed \/ Build \/ BuildAgain

SpecClass == InitClass /\ [][NextClass]_vars

\* The tree and the node of the last extract_class_context call.
CalledTree ==
    IF call.op = "class_context_reparsed" THEN Append(tree, call.node) ELSE tree
CalledNode ==
    IF call.op = "class_context_reparsed" THEN Len(tree) + 1 ELSE call.node

\* The classes, in traversal order, that the ownership rule gives the node: a
\* statement of the body is the node itself or starts on the node's line.
OwnersByRule ==
    SelectSeq(Walk(tree, 0),
              LAMBDA c :
                /\ KindOf(tree, c) = "ClassDef"
                /\ \E item \in Range(Children(tree, c)) :
                        \/ item = CalledNode
                        \/ Lineno(tree, item) = Lineno(CalledTree, CalledNode))

\* C11: when more than one class passes the ownership rule for the node, the
\* class extract_class_context reports is the first of them in traversal
\* order; a later one never takes its place.
C11_FirstOwnerWins ==
    (/\ call.op \in {"class_context", "class_context_reparsed"}
     /\ Len(OwnersByRule) >= 2)
        => /\ ret # Nothing
           /\ ret[1].class_name = tree[OwnersByRule[1]].name

ClaimedAttributes(c) ==
    {x \in AttributeNames :
        \E n \in Subtree(tree, c) :
            /\ tree[n].kind = "Assign"
            /\ \E i \in DOMAIN tree[n].targets :
                LET target == tree[n].targets[i]
                IN  \/ /\ target[1] = "Name"
                       /\ target[2] = x
                       /\ Parent(tree, n) = c
                    \/ /\ target[1] = "Attribute"
                       /\ target[3] = x
                       /\ target[2] \in {"self", "cls"}
                       /\ \E m \in Range(Children(tree, c)) :
                            /\ tree[m].kind \in FuncKinds
                            /\ IsAncestor(tree, m, n)
                            /\ tree[m].params # <<>>
                            /\ tree[m].params[1].name = target[2]}

\* C12: class_attributes holds a name exactly when it is a simple name that an
\* assignment binds at class scope, or the x of a "self.x" or "cls.x" that an
\* assignment in a method of the class binds; a local variable of a method is
\* no attribute; and each name is there once.
C12_AttributesOfClass ==
    (call.op = "class_context" /\ ret # Nothing) =>
        /\ Range(ret[1].class_attributes)
                = ClaimedAttributes(Parent(tree, call.node))
        /\ Cardinality(Range(ret[1].class_attributes))
                = Len(ret[1].class_attributes)

\* The functions of the body of the class c other than the node n, in the
\* order of the declaration.
SiblingsOf(c, n) ==
    SelectSeq(Children(tree, c),
              LAMBDA item : tree[item].kind \in FuncKinds /\ item # n)

\* C13: other_methods holds, in the order of the declaration, the name of
\* every function (ordinary or async) of the body of the owning class but the
\* target node itself; another function of the class with the target's name
\* is listed.
C13_SiblingMethods ==
    (call.op = "class_context" /\ ret # Nothing) =>
        LET siblings == SiblingsOf(Parent(tree, call.node), call.node)
        IN  ret[1].other_methods = [i \in 1..Len(siblings) |-> tree[siblings[i]].name]

(***************************************************************************)
(* The import extractor's inputs and specification                         *)
(***************************************************************************)
MaxImportNodes == 3

ImportOf(kind, module, aliases, joined) ==
    [Label(kind, module) EXCEPT !.targets = aliases, !.joined = joined]

ImportLabels ==
    {Label("FunctionDef", "f"),
     ImportOf("Import", None, <<<<"os", None>>>>, FALSE),
     ImportOf("Import", None, <<<<"os", None>>, <<"sys", "s">>>>, TRUE),
     ImportOf("ImportFrom", "m", <<<<"p", "q">>>>, FALSE),
     ImportOf("ImportFrom", None, <<<<"x", None>>>>, FALSE),
     ImportOf("ImportFrom", "m", <<<<"p", "q">>, <<"r", None>>>>, FALSE)}

InitImp ==
    /\ tree \in Trees(ImportLabels, MaxImportNodes)
    /\ filePath = SomePath
    /\ hashSeed = NoSlots
    /\ call = Idle
    /\ ret = Nothing
    /\ prev = Nothing

Imports ==
    /\ call = Idle
    /\ call' = [op |-> "imports"]
    /\ ret' = extract_imports(tree)
    /\ UNCHANGED <<tree, filePath, hashSeed, prev>>

NextImp == Imports

SpecImp == InitImp /\ [][NextImp]_vars

\* How deep a node is, and the import statements of the file in traversal
\* order: the shallower first and, of two as deep, the one the source has first.
RECURSIVE Depth(_)
Depth(n) == IF n = 0 THEN 0 ELSE 1 + Depth(Parent(tree, n))

RECURSIVE InTraversalOrder(_)
InTraversalOrder(ns) ==
    IF ns = {} THEN <<>>
    ELSE LET n == CHOOSE x \in ns : \A y \in ns :
                        \/ Depth(x) < Depth(y)
                        \/ Depth(x) = Depth(y) /\ x <= y
         IN  <<n>> \o InTraversalOrder(ns \ {n})

\* What C14 says of the records of one import statement.
ClaimedImports(n) ==
    LET names == tree[n].targets
    IN  IF tree[n].kind = "Import"
        THEN [i \in 1..Len(names) |->
                [from |-> FALSE, module |-> names[i][1], imported_names |-> <<"*">>,
                 alias |-> None]]
        ELSE <<[from |-> TRUE,
                module |-> IF tree[n].name = None THEN "" ELSE tree[n].name,
                imported_names |-> [i \in 1..Len(names) |-> names[i][1]],
                alias |-> IF Len(names) = 1 /\ names[1][2] # None
                          THEN names[1][2] ELSE None]>>

AllClaimedImports ==
    Flatten(MapSeq(InTraversalOrder({n \in Nodes(tree) :
                                        tree[n].kind \in {"Import", "ImportFrom"}}),
                   ClaimedImports))

\* C14: extract_imports gives, for the import statements of the whole file in
\* traversal order, one record for each module of a plain import, with
\* imported_names ["*"], and one record for each from-import, with all its
\* names, the module "" when it names none, and an alias exactly when it
\* imports one name and that name has an alias.
C14_ImportRecords ==
    call.op = "imports" =>
        /\ Len(ret) = Len(AllClaimedImports)
        /\ \A i \in 1..Len(ret) :
            /\ ret[i].module = AllClaimedImports[i].module
            /\ ret[i].imported_names = AllClaimedImports[i].imported_names
            /\ AllClaimedImports[i].from => ret[i].alias = AllClaimedImports[i].alias

\* The imports of a file with an import in a function before a from-import of
\* two names, the first with an alias, at module level.
C14_Witness ==
    /\ call.op = "imports"
    /\ Len(ret) = 2
    /\ ret[1].line_number > ret[2].line_number
    /\ ret[1].imported_names = <<"p", "r">>
    /\ ret[1].alias = None

(***************************************************************************)
(* The module path's inputs and specification                              *)
(***************************************************************************)
MaxPathParts == 3

\* The pieces a file path is put together from.
PathParts == {<<"m">>, <<".", "p", "y">>, <<"/">>, <<"\\">>, <<".">>}

RECURSIVE PathsUpTo(_)
PathsUpTo(n) ==
    IF n = 0 THEN {<<>>}
    ELSE LET S == PathsUpTo(n - 1)
         IN  S \cup {x[1] \o x[2] : x \in S \X PathParts}

FilePaths == PathsUpTo(MaxPathParts) \ {<<>>}

\* The file holds "def f():" with one statement for a body, or with none.
InitPath ==
    /\ tree \in {<<NodeOf(Label("FunctionDef", "f"), 0)>>,
                 <<NodeOf(Label("FunctionDef", "f"), 0), NodeOf(Label("Stmt", None), 1)>>}
    /\ filePath \in FilePaths
    /\ hashSeed = NoSlots
    /\ call = Idle
    /\ ret = Nothing
    /\ prev = Nothing

NextPath == Build

SpecPath == InitPath /\ [][NextPath]_vars

\* The module path as C15 has it: the extension goes where the path ends in
\* it, every separator becomes a ".", and one leading "." goes.
EndsWith(s, tail) ==
    Len(s) >= Len(tail) /\ SubSeq(s, (Len(s) - Len(tail)) + 1, Len(s)) = tail

ClaimedModulePath(file_path) ==
    LET ext == <<".", "p", "y">>
        stem == IF EndsWith(file_path, ext)
                THEN SubSeq(file_path, 1, Len(file_path) - Len(ext))
                ELSE file_path
        joined == [i \in 1..Len(stem) |->
                        IF stem[i] \in {"/", "\\"} THEN "." ELSE stem[i]]
    IN  IF joined # <<>> /\ joined[1] = "." THEN Tail(joined) ELSE joined

\* C15: the module path of a built context is the file path without its
\* extension (a ".py" elsewhere in the path stays), with every separator
\* replaced by "." and one leading "." removed; and its line range is the
\* start line and the end line of the function, start <= end.
C15_ModulePathAndRange ==
    (call.op = "build" /\ ret # Nothing) =>
        /\ ret[1].module_path = ClaimedModulePath(filePath)
        /\ ret[1].line_range[1] <= ret[1].line_range[2]
        /\ \E n \in NamedFunctions(tree, call.name) :
                ret[1].line_range = <<Lineno(tree, n), EndLineno(tree, n)>>

(***************************************************************************)
(* The command lines: what the three programs read                         *)
(***************************************************************************)
\* The outcome of a call that can raise.
Return(v) == [value |-> v]
Raise(type, msg) == [raised |-> type, msg |-> msg]
Raised(r) == "raised" \in DOMAIN r

\* The source texts of the runs, and what ast.parse makes of each.
SourceTexts == {"", " ", "x=1", "x = 1 ", "def ("}
IsBlank(code) == code \in {"", " "}
Parses(code) == code \in {"", " ", "x=1", "x = 1 "}
SyntaxErrorOf(code) == [lineno |-> 1, offset |-> 5, msg |-> "invalid syntax", text |-> code]

\* int(text) for the decimal texts of the small numbers.
MaxInt == 3
int(text) ==
    IF \E k \in 0..MaxInt : ToString(k) = text
    THEN Return(CHOOSE k \in 0..MaxInt : ToString(k) = text)
    ELSE Raise("ValueError", "invalid literal for int() with base 10: '" \o text \o "'")

\* The JSON values of the runs: the array [] and objects with some of the
\* members code, formatter and skip_on_error.
Member(key, text) == "\"" \o key \o "\": " \o text
Quoted(text) == "\"" \o text \o "\""
FormatterNames == {"black", "autopep8", "yapf"}
JsonObjects ==
    [formatter : {"black"}]
    \cup {[code |-> c] : c \in SourceTexts}
    \cup [code : SourceTexts, formatter : FormatterNames]
    \cup [code : SourceTexts, skip_on_error : {FALSE}]
    \cup [code : SourceTexts, formatter : FormatterNames, skip_on_error : {FALSE}]
JsonArray == [array |-> <<>>]
JsonValues == JsonObjects \cup {JsonArray}
IsObject(v) == v \in JsonObjects

\* json.dumps of one of these values, and json.loads of a text.
Join(texts) ==
    IF texts = <<>> THEN ""
    ELSE IF Len(texts) = 1 THEN texts[1]
    ELSE IF Len(texts) = 2 THEN texts[1] \o ", " \o texts[2]
    ELSE texts[1] \o ", " \o texts[2] \o ", " \o texts[3]
Dumps(v) ==
    IF v = JsonArray THEN "[]"
    ELSE "{" \o Join(
            (IF "code" \in DOMAIN v THEN <<Member("code", Quoted(v.code))>> ELSE <<>>)
         \o (IF "formatter" \in DOMAIN v
             THEN <<Member("formatter", Quoted(v.formatter))>> ELSE <<>>)
         \o (IF "skip_on_error" \in DOMAIN v
             THEN <<Member("skip_on_error", "false")>> ELSE <<>>)) \o "}"
json_loads(text) ==
    IF \E v \in JsonValues : Dumps(v) = text
    THEN Return(CHOOSE v \in JsonValues : Dumps(v) = text)
    ELSE Raise("JSONDecodeError", "Expecting value: line 1 column 1 (char 0)")

\* input_data.get(key, default); on a list it is an AttributeError.
Get(v, key, default) ==
    IF ~IsObject(v) THEN Raise("AttributeError", "'list' object has no attribute 'get'")
    ELSE IF key \in DOMAIN v THEN Return(v[key]) ELSE Return(default)

\* What a run reads on its standard input: a text, from a file or from a pipe.
StdinTexts == {Dumps(v) : v \in JsonValues} \cup {"", "x=1", "def ("}

\* What a process leaves: the payloads it printed and its completion code.
Exit(stdout, code) == [stdout |-> stdout, exit |-> code]
\* An exception nobody catches: the traceback goes to stderr.
Crash == Exit(<<>>, 1)

(***************************************************************************)
(* code_formatter.py                                                       *)
(***************************************************************************)
\* The text the formatting library gives for a source text.
Tidy(code) == IF code \in {"x=1", "x = 1 "} THEN "x = 1" ELSE code

DefaultLineLength == 88
Pep8LineLength == 79

\* A wrapper that hands back an empty text where the library fails.
_format_with_black_or_nothing(code, line_length, installed) ==
    IF "black" \notin installed
    THEN Raise("ImportError", "black is not installed. Install it with: pip install black")
    ELSE IF ~Parses(code) THEN Return("")
    ELSE Return(Tidy(code))

\* installed is the set of the formatters the interpreter can import.
_format_with_black(code, line_length, installed) ==
    IF "black" \notin installed
    THEN Raise("ImportError", "black is not installed. Install it with: pip install black")
    ELSE IF ~Parses(code)
    THEN Raise("Exception", "Black formatting failed: Cannot parse")
    ELSE Return(Tidy(code))

\* autopep8.fix_code hands back a text it cannot parse as it is.
_format_with_autopep8(code, line_length, installed) ==
    IF "autopep8" \notin installed
    THEN Raise("ImportError", "autopep8 is not installed. Install it with: pip install autopep8")
    ELSE Return(Tidy(code))

format_code(code, formatter, line_length, skip_on_error, installed) ==
    LET length == IF formatter = "autopep8" /\ line_length = DefaultLineLength
                  THEN Pep8LineLength ELSE line_length
        formatted == IF formatter = "black"
                     THEN _format_with_black(code, length, installed)
                     ELSE _format_with_autopep8(code, length, installed)
    IN  IF IsBlank(code)
        THEN [success |-> FALSE, formatted_code |-> code, error |-> "Code is empty"]
        ELSE IF formatter \notin {"black", "autopep8"}
        THEN [success |-> FALSE, formatted_code |-> code,
              error |-> "Unknown formatter: " \o formatter]
        ELSE IF ~Raised(formatted)
        THEN [success |-> TRUE, formatted_code |-> formatted.value,
              original_code |-> code]
        ELSE IF formatted.raised = "ImportError"
        THEN IF skip_on_error
             THEN [success |-> TRUE, formatted_code |-> code,
                   warning |-> "Formatter '" \o formatter
                        \o "' not installed. Code returned unformatted. Error: "
                        \o formatted.msg]
             ELSE [success |-> FALSE, formatted_code |-> code,
                   error |-> "Formatter '" \o formatter \o "' not installed: "
                        \o formatted.msg]
        ELSE IF skip_on_error
             THEN [success |-> TRUE, formatted_code |-> code,
                   warning |-> "Formatting failed: " \o formatted.msg
                        \o ". Original code returned."]
             ELSE [success |-> FALSE, formatted_code |-> code, original_code |-> code,
                   error |-> "Formatting failed: " \o formatted.msg]

FormatterFailure(prefix, msg) ==
    [success |-> FALSE, formatted_code |-> "", error |-> prefix \o msg]

\* main of code_formatter.py: argv holds the arguments after the program's
\* name. Every path ends by falling off main, with completion code 0.
formatter_main(argv, stdin, installed) ==
    IF Len(argv) > 0
    THEN LET formatter == IF Len(argv) > 1 THEN argv[2] ELSE "black"
             line_length == IF Len(argv) > 2 THEN int(argv[3])
                            ELSE Return(DefaultLineLength)
         IN  IF Raised(line_length)
             THEN Exit(<<FormatterFailure("Unexpected error: ", line_length.msg)>>, 0)
             ELSE Exit(<<format_code(argv[1], formatter, line_length.value,
                                     TRUE, installed)>>, 0)
    ELSE LET input_data == json_loads(stdin.text)
         IN  IF Raised(input_data)
             THEN Exit(<<FormatterFailure("Invalid JSON input: ", input_data.msg)>>, 0)
             ELSE IF Raised(Get(input_data.value, "code", ""))
             THEN Exit(<<FormatterFailure("Unexpected error: ",
                                          Get(input_data.value, "code", "").msg)>>, 0)
             ELSE Exit(<<format_code(
                            Get(input_data.value, "code", "").value,
                            Get(input_data.value, "formatter", "black").value,
                            DefaultLineLength,
                            Get(input_data.value, "skip_on_error", TRUE).value,
                            installed)>>, 0)

(***************************************************************************)
(* format_code's inputs and specification                                  *)
(***************************************************************************)
InitFmt ==
    /\ tree = <<>>
    /\ filePath = SomePath
    /\ hashSeed = NoSlots
    /\ call = Idle
    /\ ret = Nothing
    /\ prev = Nothing

Format ==
    \E code \in SourceTexts : \E formatter \in FormatterNames :
    \E line_length \in {DefaultLineLength, Pep8LineLength, MaxInt} :
    \E skip_on_error \in BOOLEAN : \E installed \in SUBSET {"black", "autopep8"} :
        /\ call = Idle
        /\ call' = [op |-> "format_code", code |-> code, formatter |-> formatter,
                    line_length |-> line_length, skip_on_error |-> skip_on_error,
                    installed |-> installed]
        /\ ret' = format_code(code, formatter, line_length, skip_on_error, installed)
        /\ UNCHANGED <<tree, filePath, hashSeed, prev>>

NextFmt == Format

SpecFmt == InitFmt /\ [][NextFmt]_vars

\* The call's formatter is one format_code knows and cannot use: it is not
\* installed, or it fails on the text.
FormatterMissing ==
    call.formatter \in {"black", "autopep8"} /\ call.formatter \notin call.installed
FormatterFails ==
    call.formatter = "black" /\ "black" \in call.installed /\ ~Parses(call.code)

\* C16: format_code returns a record and raises nothing; when nothing was
\* formatted (empty text, unknown formatter, formatter missing or failing)
\* formatted_code is the text it was given; for a missing or failing
\* formatter, skip_on_error gives success with a warning and no error, and
\* without skip_on_error the result is a failure with an error.
C16_FormatNeverRaises ==
    call.op = "format_code" =>
        /\ ~Raised(ret)
        /\ {"success", "formatted_code"} \subseteq DOMAIN ret
        /\ (\/ IsBlank(call.code)
            \/ call.formatter \notin {"black", "autopep8"}
            \/ FormatterMissing
            \/ FormatterFails) => ret.formatted_code = call.code
        /\ (~IsBlank(call.code) /\ (FormatterMissing \/ FormatterFails)) =>
            IF call.skip_on_error
            THEN /\ ret.success
                 /\ "warning" \in DOMAIN ret
                 /\ "error" \notin DOMAIN ret
            ELSE /\ ~ret.success
                 /\ "error" \in DOMAIN ret

\* A call without skip_on_error on a text the installed formatter fails on.
C16_Witness ==
    /\ call.op = "format_code"
    /\ ~call.skip_on_error
    /\ FormatterFails
    /\ ~ret.success
    /\ ret.formatted_code = call.code

(***************************************************************************)
(* syntax_validator.py                                                     *)
(***************************************************************************)
\* The warnings on the text: the one line of "x = 1 " ends in a blank.
_check_common_issues(code) ==
    IF code = "x = 1 "
    THEN <<[line |-> 1, column |-> 5, message |-> "Trailing whitespace",
            severity |-> "warning"]>>
    ELSE <<>>

validate_syntax(code) ==
    IF IsBlank(code)
    THEN [is_valid |-> FALSE,
          errors |-> <<[line |-> 0, column |-> 0, message |-> "Code is empty",
                        severity |-> "error"]>>,
          warnings |-> <<>>]
    ELSE IF Parses(code)
    THEN [is_valid |-> TRUE, errors |-> <<>>, warnings |-> _check_common_issues(code)]
    ELSE LET e == SyntaxErrorOf(code)
         IN  [is_valid |-> FALSE,
              errors |-> <<[line |-> e.lineno, column |-> e.offset,
                            message |-> e.msg, severity |-> "error",
                            context |-> e.text]>>,
              warnings |-> <<>>]

\* main of syntax_validator.py. A text that is not JSON is read again as the
\* code itself, which takes a standard input that can seek; only the
\* JSONDecodeError is caught.
validator_main(argv, stdin) ==
    IF Len(argv) > 0
    THEN Exit(<<validate_syntax(argv[1])>>, 0)
    ELSE LET input_data == json_loads(stdin.text)
         IN  IF Raised(input_data)
             THEN IF stdin.seekable
                  THEN Exit(<<validate_syntax(stdin.text)>>, 0)
                  ELSE Crash
             ELSE IF Raised(Get(input_data.value, "code", ""))
             THEN Crash
             ELSE Exit(<<validate_syntax(Get(input_data.value, "code", "").value)>>, 0)

(***************************************************************************)
(* ast_analyzer.py: main                                                   *)
(***************************************************************************)
\* The files of the runs: the one at filePath holds the source of tree, the
\* one at BadPath holds a text that does not parse, and there is no other.
BadPath == <<"b", ".", "p", "y">>
MissingPath == <<"n", ".", "p", "y">>

RECURSIVE Text(_)
Text(chars) == IF chars = <<>> THEN "" ELSE Head(chars) \o Text(Tail(chars))

\* PythonASTAnalyzer(file_path): open, read and parse.
PythonASTAnalyzer(file_path) ==
    IF file_path = filePath THEN Return(tree)
    ELSE IF file_path = BadPath
    THEN Raise("SyntaxError", "invalid syntax (<unknown>, line 1)")
    ELSE Raise("FileNotFoundError",
               "[Errno 2] No such file or directory: '" \o Text(file_path) \o "'")

\* main of ast_analyzer.py: argv holds the arguments after the program's name.
\* The line is read before the try, so a line that is no number is not caught.
analyzer_main(argv) ==
    IF Len(argv) < 2
    THEN Exit(<<[error |-> "Usage: python ast_analyzer.py <file_path> <function_name> [line_number]"]>>, 1)
    ELSE LET file_path == argv[1]
             function_name == argv[2]
             line_number == IF Len(argv) > 2 THEN int(argv[3]) ELSE Return(None)
             analyzer == PythonASTAnalyzer(file_path)
             context == build_function_context(
                            analyzer.value, file_path, hashSeed, function_name,
                            IF Len(argv) > 2 THEN Some(line_number.value) ELSE Nothing)
         IN  IF Raised(line_number) THEN Crash
             ELSE IF Raised(analyzer)
             THEN Exit(<<[error |-> analyzer.msg, type |-> analyzer.raised]>>, 1)
             ELSE IF context # Nothing
             THEN Exit(<<context[1]>>, 0)
             ELSE Exit(<<[error |-> "Function \"" \o function_name
                                    \o "\" not found in " \o Text(file_path)]>>, 1)

(***************************************************************************)
(* The command lines' specification                                        *)
(***************************************************************************)
MaxCliNodes == 2

LineTexts == {ToString(k) : k \in 0..MaxInt} \cup {"x"}
AnalyzerArgvs ==
    {<<>>, <<SomePath>>}
    \cup ({SomePath, BadPath, MissingPath} \X QueryNames)
    \cup ({SomePath, BadPath, MissingPath} \X QueryNames \X LineTexts)

FormatterArgvs ==
    {<<c>> : c \in SourceTexts}
    \cup (SourceTexts \X FormatterNames)
    \cup (SourceTexts \X FormatterNames \X {ToString(MaxInt), "x"})

Pipe(text) == [text |-> text, seekable |-> FALSE]
File(text) == [text |-> text, seekable |-> TRUE]
Stdins == {Pipe(text) : text \in StdinTexts} \cup {File(text) : text \in StdinTexts}

\* The runs of a program that reads its code from argv or else from stdin.
Runs(argvs, stdins) ==
    ((argvs \ {<<>>}) \X {Pipe("")}) \cup ({<<>>} \X stdins)

InitCli ==
    /\ tree \in Trees(LocLabels, MaxCliNodes)
    /\ filePath = SomePath
    /\ hashSeed = NoSlots
    /\ call = Idle
    /\ ret = Nothing
    /\ prev = Nothing

RunAnalyzer ==
    \E argv \in AnalyzerArgvs :
        /\ call = Idle
        /\ call' = [op |-> "ast_analyzer", argv |-> argv]
        /\ ret' = analyzer_main(argv)
        /\ UNCHANGED <<tree, filePath, hashSeed, prev>>

RunFormatter ==
    \E run \in Runs(FormatterArgvs, {Pipe(text) : text \in StdinTexts}) :
    \E installed \in SUBSET {"black", "autopep8"} :
        /\ call = Idle
        /\ call' = [op |-> "code_formatter", argv |-> run[1], stdin |-> run[2],
                    installed |-> installed]
        /\ ret' = formatter_main(run[1], run[2], installed)
        /\ UNCHANGED <<tree, filePath, hashSeed, prev>>

RunValidator ==
    \E run \in Runs({<<c>> : c \in SourceTexts}, Stdins) :
        /\ call = Idle
        /\ call' = [op |-> "syntax_validator", argv |-> run[1], stdin |-> run[2]]
        /\ ret' = validator_main(run[1], run[2])
        /\ UNCHANGED <<tree, filePath, hashSeed, prev>>

NextCli == RunAnalyzer \/ RunFormatter \/ RunValidator

SpecCli == InitCli /\ [][NextCli]_vars

\* The payloads that tell a failure and the ones that tell a success.
IsErrorPayload(p) ==
    \/ "error" \in DOMAIN p
    \/ "success" \in DOMAIN p /\ ~p.success
    \/ "is_valid" \in DOMAIN p /\ ~p.is_valid
IsSuccessPayload(p) ==
    \/ "signature" \in DOMAIN p
    \/ "success" \in DOMAIN p /\ p.success
    \/ "is_valid" \in DOMAIN p /\ p.is_valid

\* The code a formatter or validator run is given, when it is given one.
GivenCode ==
    IF call.argv # <<>> THEN Some(call.argv[1])
    ELSE IF Raised(json_loads(call.stdin.text)) THEN Nothing
    ELSE IF ~IsObject(json_loads(call.stdin.text).value) THEN Nothing
    ELSE Some(Get(json_loads(call.stdin.text).value, "code", "").value)

\* The failure cases of the three programs: a parse failure or a function
\* that is not found for the analyzer; a standard input that is not JSON, or
\* an empty code, for the formatter and the validator.
FailureCase ==
    IF call.op = "ast_analyzer"
    THEN /\ Len(call.argv) >= 2
         /\ Len(call.argv) > 2 => ~Raised(int(call.argv[3]))
         /\ \/ call.argv[1] = BadPath
            \/ /\ call.argv[1] = filePath
               /\ NamedFunctions(tree, call.argv[2]) = {}
    ELSE \/ call.argv = <<>> /\ Raised(json_loads(call.stdin.text))
         \/ GivenCode # Nothing /\ IsBlank(GivenCode[1])

\* C8: every failure case of the three programs ends with a completion code
\* other than 0 after printing an error payload, and a success payload only
\* comes with completion code 0.
C8_FailuresExitNonzero ==
    call.op \in {"ast_analyzer", "code_formatter", "syntax_validator"} =>
        /\ FailureCase =>
            /\ ret.exit # 0
            /\ ret.stdout # <<>>
            /\ \A i \in DOMAIN ret.stdout : IsErrorPayload(ret.stdout[i])
        /\ \A i \in DOMAIN ret.stdout :
                IsSuccessPayload(ret.stdout[i]) => ret.exit = 0

=============================================================================
